---- MODULE Spec2Model ----
(***************************************************************************)
(* Model of pasimple (src/pasimple/pa_simple.py, src/pasimple/__init__.py):*)
(* the lazily loaded libpulse-simple table, the PaSimple stream object and *)
(* the native calls it issues.  The native library is the environment: its *)
(* outcomes are inputs of the actions, and every call that reaches it is   *)
(* appended to log.                                                        *)
(***************************************************************************)
EXTENDS Integers, Sequences, FiniteSets, TLC

VARIABLES
    libpulse_simple,  \* module global _libpulse_simple: <<>> is None, <<t>> the loaded table
    objs,             \* the fields of each PaSimple object
    ctl,              \* where the caller stands with each object
    log,              \* the native calls issued so far, in order
    last,             \* the most recent call on a PaSimple object and its outcome
    frame             \* the running call of a module-level function and its locals

vars == <<libpulse_simple, objs, ctl, log, last, frame>>

----------------------------------------------------------------------------
(* Bounds *)

MaxStreams == 2
MaxCalls == 4
MaxBytes == 1

Streams == 1..MaxStreams

----------------------------------------------------------------------------
(* Constants of the package *)

PA_STREAM_PLAYBACK == 1
PA_STREAM_RECORD == 2
PA_SAMPLE_U8 == 0
PA_SAMPLE_ALAW == 1
PA_SAMPLE_ULAW == 2
PA_SAMPLE_S16LE == 3
PA_SAMPLE_S16BE == 4
PA_SAMPLE_FLOAT32LE == 5
PA_SAMPLE_FLOAT32BE == 6
PA_SAMPLE_S32LE == 7
PA_SAMPLE_S32BE == 8
PA_SAMPLE_S24LE == 9
PA_SAMPLE_S24BE == 10
PA_SAMPLE_S24_32LE == 11
PA_SAMPLE_S24_32BE == 12

Formats == { PA_SAMPLE_U8, PA_SAMPLE_ALAW, PA_SAMPLE_ULAW, PA_SAMPLE_S16LE,
             PA_SAMPLE_S16BE, PA_SAMPLE_FLOAT32LE, PA_SAMPLE_FLOAT32BE,
             PA_SAMPLE_S32LE, PA_SAMPLE_S32BE, PA_SAMPLE_S24LE,
             PA_SAMPLE_S24BE, PA_SAMPLE_S24_32LE, PA_SAMPLE_S24_32BE }

----------------------------------------------------------------------------
(* Format catalog (src/pasimple/__init__.py) *)

OK == "ok"
KeyError == "KeyError"

\* sample width -> most common format of that width
LOOKUP_FORMAT_BY_WIDTH ==
    (1 :> PA_SAMPLE_U8) @@ (2 :> PA_SAMPLE_S16LE) @@
    (3 :> PA_SAMPLE_S24LE) @@ (4 :> PA_SAMPLE_S32LE)

\* the width table with the packed 24-bit formats given their padded width
LOOKUP_WIDTH_BY_FORMAT_padded ==
    (PA_SAMPLE_U8 :> 1) @@ (PA_SAMPLE_ALAW :> 1) @@ (PA_SAMPLE_ULAW :> 1) @@
    (PA_SAMPLE_S16LE :> 2) @@ (PA_SAMPLE_S16BE :> 2) @@
    (PA_SAMPLE_FLOAT32LE :> 4) @@ (PA_SAMPLE_FLOAT32BE :> 4) @@
    (PA_SAMPLE_S32LE :> 4) @@ (PA_SAMPLE_S32BE :> 4) @@
    (PA_SAMPLE_S24LE :> 4) @@ (PA_SAMPLE_S24BE :> 4) @@
    (PA_SAMPLE_S24_32LE :> 4) @@ (PA_SAMPLE_S24_32BE :> 4)

\* format -> sample width in bytes
LOOKUP_WIDTH_BY_FORMAT ==
    (PA_SAMPLE_U8 :> 1) @@ (PA_SAMPLE_ALAW :> 1) @@ (PA_SAMPLE_ULAW :> 1) @@
    (PA_SAMPLE_S16LE :> 2) @@ (PA_SAMPLE_S16BE :> 2) @@
    (PA_SAMPLE_FLOAT32LE :> 4) @@ (PA_SAMPLE_FLOAT32BE :> 4) @@
    (PA_SAMPLE_S32LE :> 4) @@ (PA_SAMPLE_S32BE :> 4) @@
    (PA_SAMPLE_S24LE :> 3) @@ (PA_SAMPLE_S24BE :> 3) @@
    (PA_SAMPLE_S24_32LE :> 4) @@ (PA_SAMPLE_S24_32BE :> 4)

\* table[key] of a dict: the value, or KeyError and no value
Subscript(table, key) ==
    IF key \in DOMAIN table THEN [res |-> OK, val |-> <<table[key]>>]
    ELSE [res |-> KeyError, val |-> <<>>]

\* width2format answering the widest format for a width it does not know
width2format_fallback(sample_width) ==
    IF sample_width \in DOMAIN LOOKUP_FORMAT_BY_WIDTH
    THEN [res |-> OK, val |-> <<LOOKUP_FORMAT_BY_WIDTH[sample_width]>>]
    ELSE [res |-> OK, val |-> <<PA_SAMPLE_S32LE>>]

width2format(sample_width) == Subscript(LOOKUP_FORMAT_BY_WIDTH, sample_width)

format2width(audio_format) == Subscript(LOOKUP_WIDTH_BY_FORMAT, audio_format)

----------------------------------------------------------------------------
(* ctypes structures *)

\* A Python int v with |v| < 2^32, as its sign and the 16-bit halves of |v|.
HalfWord == 65536
Py(n) == [ neg |-> n < 0,
           hi |-> (IF n < 0 THEN -n ELSE n) \div HalfWord,
           lo |-> (IF n < 0 THEN -n ELSE n) % HalfWord ]

\* Storing a Python int in a c_uint32 field keeps its low 32 bits: a
\* non-negative v below 2^32 is kept, a negative v becomes 2^32 - |v|.
\* The result is the pair of 16-bit halves of the field.
c_uint32(v) ==
    IF ~v.neg THEN [hi |-> v.hi, lo |-> v.lo]
    ELSE [ hi |-> (HalfWord - 1 - v.hi + (IF v.lo = 0 THEN 1 ELSE 0)) % HalfWord,
           lo |-> (HalfWord - v.lo) % HalfWord ]

\* Storing a Python int in a c_uint8 field keeps its low 8 bits.
c_uint8(v) == v % 256

\* Storing a Python int in a c_int field; every integer of the model is
\* within the range of c_int and is kept.
c_int(v) == v

\* pa_sample_spec(format, rate, channels): fields format, rate, channels
pa_sample_spec(format, rate, channels) ==
    [ format |-> c_int(format), rate |-> c_uint32(Py(rate)),
      channels |-> c_uint8(channels) ]

\* pa_buffer_attr with tlength and prebuf taking each other's place
pa_buffer_attr_swapped(maxlength, tlength, prebuf, minreq, fragsize) ==
    [ maxlength |-> c_uint32(maxlength), tlength |-> c_uint32(prebuf),
      prebuf |-> c_uint32(tlength), minreq |-> c_uint32(minreq),
      fragsize |-> c_uint32(fragsize) ]

\* pa_buffer_attr(maxlength, tlength, prebuf, minreq, fragsize): fields in
\* that order
pa_buffer_attr(maxlength, tlength, prebuf, minreq, fragsize) ==
    [ maxlength |-> c_uint32(maxlength), tlength |-> c_uint32(tlength),
      prebuf |-> c_uint32(prebuf), minreq |-> c_uint32(minreq),
      fragsize |-> c_uint32(fragsize) ]

\* the default of maxlength, tlength, prebuf, minreq and fragsize
Unset == Py(-1)

\* Arguments handed to the constructor: a playback stream with the default
\* buffer attributes, and a record stream with maxlength and fragsize given.
Args == { [direction |-> PA_STREAM_PLAYBACK, format |-> PA_SAMPLE_S16LE,
           channels |-> 2, rate |-> 44100,
           maxlength |-> Unset, tlength |-> Unset, prebuf |-> Unset,
           minreq |-> Unset, fragsize |-> Unset],
          [direction |-> PA_STREAM_RECORD, format |-> PA_SAMPLE_S24LE,
           channels |-> 1, rate |-> 41000,
           maxlength |-> Py(246000), tlength |-> Unset, prebuf |-> Unset,
           minreq |-> Unset, fragsize |-> Py(24600)] }

\* Outcomes of a call on a PaSimple object: OK is a normal return, the others
\* are the exception raised (PaSimpleError messages, or a Python TypeError).
ErrLoad == "<class 'OSError'>"
ErrCreate == "Error while creating stream"
ErrClosed == "Cannot perform operation on closed stream"
ErrNotRecord == "Stream was not initialized for recording"
ErrNotPlayback == "Stream was not initialized for playback"
ErrRead == "Could not record audio"
ErrWrite == "Could not play audio"
ErrDrain == "Could not drain"
ErrFlush == "Could not flush"
ErrLatency == "Could not get latency"
TypeError == "TypeError"

----------------------------------------------------------------------------
(* The native library as the environment *)

\* error codes the server may report through the error out-parameter
NativeErrors == {1, 2}

\* what pa_simple_new may do for stream s: a fresh non-null pointer (s itself,
\* distinct per stream) with error left 0, or NULL with an error code
NULL == 0
NewOutcomes(s) == { [ret |-> s, err |-> 0, data |-> <<>>] } \cup
                  { [ret |-> NULL, err |-> e, data |-> <<>>] : e \in NativeErrors }

\* what pa_simple_write/drain/flush may do: status 0, or a negative status
\* with an error code
CallOutcomes == { [ret |-> 0, err |-> 0, data |-> <<>>] } \cup
                { [ret |-> -1, err |-> e, data |-> <<>>] : e \in NativeErrors }

\* what pa_simple_read may do with a buffer of n bytes: fill it with captured
\* bytes and return 0, or return a negative status with an error code
SampleBytes == {17, 34}
ReadOutcomes(n) == { [ret |-> 0, err |-> 0, data |-> d] : d \in [1..n -> SampleBytes] } \cup
                   { [ret |-> -1, err |-> e, data |-> <<>>] : e \in NativeErrors }

\* what the server's pa_simple_get_latency would do: a latency in
\* microseconds with error 0, or (pa_usec_t)-1 with an error code
Latencies == {0, 250}
LatencyOutcomes == { [ret |-> l, err |-> 0, data |-> <<>>] : l \in Latencies } \cup
                   { [ret |-> -1, err |-> e, data |-> <<>>] : e \in NativeErrors }

\* a call that reached the native layer: the entry point and the stream handle
\* passed (0 when none is)
Call(fn, h) == [fn |-> fn, h |-> h]

\* number of pa_simple_free calls issued for handle h
FreeCount(h) == Cardinality({ i \in 1..Len(log) :
                    log[i].fn = "pa_simple_free" /\ log[i].h = h })

\* the library load attempts
Loads == { i \in 1..Len(log) : log[i].fn = "CDLL" }

----------------------------------------------------------------------------
(* get_libpulse_simple *)

\* The table as left by a successful load: pa_simple_new.restype is set to
\* c_void_p, and the attribute pa_simple_get_latency is bound to the ctypes
\* type c_ulonglong itself (the assignment is to the attribute, not to its
\* restype), shadowing the foreign function.
LoadedTable == [ pa_simple_new_restype |-> "c_void_p",
                 pa_simple_get_latency |-> "c_ulonglong" ]

\* get_libpulse_simple remembering a failed load: later calls raise without
\* looking for the library again
FailedTable == [ pa_simple_new_restype |-> "unloaded",
                 pa_simple_get_latency |-> "unloaded" ]
get_libpulse_simple_cached(lib, loadOk) ==
    IF lib = <<>>
    THEN IF loadOk
         THEN [ lib |-> <<LoadedTable>>, raised |-> FALSE,
                calls |-> <<Call("CDLL", 0)>> ]
         ELSE [ lib |-> <<FailedTable>>, raised |-> TRUE,
                calls |-> <<Call("CDLL", 0)>> ]
    ELSE [ lib |-> lib, raised |-> lib = <<FailedTable>>, calls |-> <<>> ]

\* get_libpulse_simple without the `is None` test: the library is loaded on
\* every call
get_libpulse_simple_reload(lib, loadOk) ==
    IF loadOk
    THEN [ lib |-> <<LoadedTable>>, raised |-> FALSE,
           calls |-> <<Call("CDLL", 0)>> ]
    ELSE [ lib |-> <<>>, raised |-> TRUE, calls |-> <<Call("CDLL", 0)>> ]

\* loadOk: whether ctypes.CDLL('libpulse-simple.so.0') finds the library.
\* Result: the new value of the global, whether PaSimpleError was raised,
\* and the load attempt issued.
get_libpulse_simple(lib, loadOk) ==
    IF lib = <<>>
    THEN IF loadOk
         THEN [ lib |-> <<LoadedTable>>, raised |-> FALSE,
                calls |-> <<Call("CDLL", 0)>> ]
         ELSE [ lib |-> <<>>, raised |-> TRUE,
                calls |-> <<Call("CDLL", 0)>> ]
    ELSE [ lib |-> lib, raised |-> FALSE, calls |-> <<>> ]

\* pa_simple_new.restype left at the ctypes default (c_int): NULL comes back
\* as the integer 0
restype_default(table, p) == <<p>>

\* ctypes conversion of a returned pointer under restype c_void_p: NULL
\* becomes None (<<>>), anything else the integer address.  Under the default
\* restype (c_int) the result is always an integer.
restype(table, p) ==
    IF table.pa_simple_new_restype = "c_void_p" /\ p = NULL THEN <<>> ELSE <<p>>

\* outcome record of a method: the result, the error code in the message,
\* the value returned, the object afterwards, the global afterwards and the
\* native calls issued
Effect(res, code, val, self, lib, calls) ==
    [ res |-> res, code |-> code, val |-> val, self |-> self,
      lib |-> lib, calls |-> calls ]

----------------------------------------------------------------------------
(* PaSimple *)

\* an object no constructor has run on
NoObject == [ direction |-> 0, format |-> 0, channels |-> 0, rate |-> 0,
              stream |-> <<>>, stream_alive |-> FALSE ]

\* __init__ saving the channel count and the rate in each other's field
init_swapped(a, lib, loadOk, out) ==
    LET self0 == [ direction |-> a.direction, format |-> a.format,
                   channels |-> a.rate, rate |-> a.channels,
                   stream |-> <<>>, stream_alive |-> FALSE ]
        sample_spec == pa_sample_spec(a.format, a.rate, a.channels)
        buffer_attr == pa_buffer_attr(a.maxlength, a.tlength, a.prebuf,
                                      a.minreq, a.fragsize)
        g == get_libpulse_simple(lib, loadOk)
        calls == g.calls \o <<Call("pa_simple_new", 0)>>
    IN  IF g.raised THEN Effect(ErrLoad, 0, <<>>, self0, g.lib, g.calls)
        ELSE IF restype(g.lib[1], out.ret) = <<>>
        THEN Effect(ErrCreate, out.err, <<sample_spec, buffer_attr>>,
                    self0, g.lib, calls)
        ELSE Effect(OK, 0, <<sample_spec, buffer_attr>>,
                    [self0 EXCEPT !.stream = restype(g.lib[1], out.ret),
                                  !.stream_alive = TRUE],
                    g.lib, calls)

\* PaSimple.__init__.  The value of the effect is the pair of structures
\* handed to pa_simple_new, when the call is made.
init(a, lib, loadOk, out) ==
    LET self0 == [ direction |-> a.direction, format |-> a.format,
                   channels |-> a.channels, rate |-> a.rate,
                   stream |-> <<>>, stream_alive |-> FALSE ]
        sample_spec == pa_sample_spec(a.format, a.rate, a.channels)
        buffer_attr == pa_buffer_attr(a.maxlength, a.tlength, a.prebuf,
                                      a.minreq, a.fragsize)
        g == get_libpulse_simple(lib, loadOk)
    IN  IF g.raised
        THEN Effect(ErrLoad, 0, <<>>, self0, g.lib, g.calls)
        ELSE LET stream == restype(g.lib[1], out.ret)
                 calls == g.calls \o <<Call("pa_simple_new", 0)>>
             IN  IF stream = <<>>
                 THEN Effect(ErrCreate, out.err, <<sample_spec, buffer_attr>>,
                             self0, g.lib, calls)
                 ELSE Effect(OK, 0, <<sample_spec, buffer_attr>>,
                             [self0 EXCEPT !.stream = stream, !.stream_alive = TRUE],
                             g.lib, calls)

\* close without clearing _stream_alive
close_no_flag(self, lib, loadOk) ==
    IF self.stream_alive
    THEN LET g == get_libpulse_simple(lib, loadOk)
         IN  IF g.raised
             THEN Effect(ErrLoad, 0, <<>>, self, g.lib, g.calls)
             ELSE Effect(OK, 0, <<>>, self, g.lib,
                         g.calls \o <<Call("pa_simple_free", self.stream[1])>>)
    ELSE Effect(OK, 0, <<>>, self, lib, <<>>)

\* PaSimple.close
close(self, lib, loadOk) ==
    IF self.stream_alive
    THEN LET self1 == [self EXCEPT !.stream_alive = FALSE]
             g == get_libpulse_simple(lib, loadOk)
         IN  IF g.raised
             THEN Effect(ErrLoad, 0, <<>>, self1, g.lib, g.calls)
             ELSE Effect(OK, 0, <<>>, self1, g.lib,
                         g.calls \o <<Call("pa_simple_free", self.stream[1])>>)
    ELSE Effect(OK, 0, <<>>, self, lib, <<>>)

\* read testing the direction before the liveness
read_dir_first(self, lib, num_bytes, loadOk, out) ==
    IF self.direction # PA_STREAM_RECORD
    THEN Effect(ErrNotRecord, 0, <<>>, self, lib, <<>>)
    ELSE IF ~self.stream_alive THEN Effect(ErrClosed, 0, <<>>, self, lib, <<>>)
    ELSE LET g == get_libpulse_simple(lib, loadOk)
             filled == [i \in 1..num_bytes |->
                          IF i \in DOMAIN out.data THEN out.data[i] ELSE 0]
             calls == g.calls \o <<Call("pa_simple_read", self.stream[1])>>
         IN  IF g.raised THEN Effect(ErrLoad, 0, <<>>, self, g.lib, g.calls)
             ELSE IF out.ret # 0
             THEN Effect(ErrRead, out.err, <<>>, self, g.lib, calls)
             ELSE Effect(OK, 0, filled, self, g.lib, calls)

\* read with a buffer one byte longer than asked for
read_oversized(self, lib, num_bytes, loadOk, out) ==
    IF ~self.stream_alive THEN Effect(ErrClosed, 0, <<>>, self, lib, <<>>)
    ELSE IF self.direction # PA_STREAM_RECORD
    THEN Effect(ErrNotRecord, 0, <<>>, self, lib, <<>>)
    ELSE LET g == get_libpulse_simple(lib, loadOk)
             filled == [i \in 1..(num_bytes + 1) |->
                          IF i \in DOMAIN out.data THEN out.data[i] ELSE 0]
             calls == g.calls \o <<Call("pa_simple_read", self.stream[1])>>
         IN  IF g.raised THEN Effect(ErrLoad, 0, <<>>, self, g.lib, g.calls)
             ELSE IF out.ret # 0
             THEN Effect(ErrRead, out.err, <<>>, self, g.lib, calls)
             ELSE Effect(OK, 0, filled, self, g.lib, calls)

\* PaSimple.read: rec_buffer is bytearray(num_bytes), zero-filled, which the
\* native call fills in place
read(self, lib, num_bytes, loadOk, out) ==
    IF ~self.stream_alive THEN Effect(ErrClosed, 0, <<>>, self, lib, <<>>)
    ELSE IF self.direction # PA_STREAM_RECORD
    THEN Effect(ErrNotRecord, 0, <<>>, self, lib, <<>>)
    ELSE LET rec_buffer == [i \in 1..num_bytes |-> 0]
             g == get_libpulse_simple(lib, loadOk)
         IN  IF g.raised
             THEN Effect(ErrLoad, 0, <<>>, self, g.lib, g.calls)
             ELSE LET ok == out.ret
                      filled == [i \in 1..num_bytes |->
                                   IF i \in DOMAIN out.data THEN out.data[i]
                                   ELSE rec_buffer[i]]
                      calls == g.calls \o
                               <<Call("pa_simple_read", self.stream[1])>>
                  IN  IF ok # 0
                      THEN Effect(ErrRead, out.err, <<>>, self, g.lib, calls)
                      ELSE Effect(OK, 0, filled, self, g.lib, calls)

\* write returning normally whatever status pa_simple_write returns
write_ignore_status(self, lib, data_len, loadOk, out) ==
    IF ~self.stream_alive THEN Effect(ErrClosed, 0, <<>>, self, lib, <<>>)
    ELSE IF self.direction # PA_STREAM_PLAYBACK
    THEN Effect(ErrNotPlayback, 0, <<>>, self, lib, <<>>)
    ELSE LET g == get_libpulse_simple(lib, loadOk)
         IN  IF g.raised THEN Effect(ErrLoad, 0, <<>>, self, g.lib, g.calls)
             ELSE Effect(OK, 0, <<>>, self, g.lib,
                         g.calls \o <<Call("pa_simple_write", self.stream[1])>>)

\* write marking the stream closed when pa_simple_write fails
write_close_on_error(self, lib, data_len, loadOk, out) ==
    IF ~self.stream_alive THEN Effect(ErrClosed, 0, <<>>, self, lib, <<>>)
    ELSE IF self.direction # PA_STREAM_PLAYBACK
    THEN Effect(ErrNotPlayback, 0, <<>>, self, lib, <<>>)
    ELSE LET g == get_libpulse_simple(lib, loadOk)
             calls == g.calls \o <<Call("pa_simple_write", self.stream[1])>>
         IN  IF g.raised THEN Effect(ErrLoad, 0, <<>>, self, g.lib, g.calls)
             ELSE IF out.ret # 0
             THEN Effect(ErrWrite, out.err, <<>>,
                         [self EXCEPT !.stream_alive = FALSE], g.lib, calls)
             ELSE Effect(OK, 0, <<>>, self, g.lib, calls)

\* PaSimple.write, with len(data) = data_len
write(self, lib, data_len, loadOk, out) ==
    IF ~self.stream_alive THEN Effect(ErrClosed, 0, <<>>, self, lib, <<>>)
    ELSE IF self.direction # PA_STREAM_PLAYBACK
    THEN Effect(ErrNotPlayback, 0, <<>>, self, lib, <<>>)
    ELSE LET g == get_libpulse_simple(lib, loadOk)
         IN  IF g.raised
             THEN Effect(ErrLoad, 0, <<>>, self, g.lib, g.calls)
             ELSE LET ok == out.ret
                      calls == g.calls \o
                               <<Call("pa_simple_write", self.stream[1])>>
                  IN  IF ok # 0
                      THEN Effect(ErrWrite, out.err, <<>>, self, g.lib, calls)
                      ELSE Effect(OK, 0, <<>>, self, g.lib, calls)

\* drain without the direction test
drain_unchecked(self, lib, loadOk, out) ==
    IF ~self.stream_alive THEN Effect(ErrClosed, 0, <<>>, self, lib, <<>>)
    ELSE LET g == get_libpulse_simple(lib, loadOk)
             calls == g.calls \o <<Call("pa_simple_drain", self.stream[1])>>
         IN  IF g.raised THEN Effect(ErrLoad, 0, <<>>, self, g.lib, g.calls)
             ELSE IF out.ret # 0
             THEN Effect(ErrDrain, out.err, <<>>, self, g.lib, calls)
             ELSE Effect(OK, 0, <<>>, self, g.lib, calls)

\* PaSimple.drain
drain(self, lib, loadOk, out) ==
    IF ~self.stream_alive THEN Effect(ErrClosed, 0, <<>>, self, lib, <<>>)
    ELSE IF self.direction # PA_STREAM_PLAYBACK
    THEN Effect(ErrNotPlayback, 0, <<>>, self, lib, <<>>)
    ELSE LET g == get_libpulse_simple(lib, loadOk)
         IN  IF g.raised
             THEN Effect(ErrLoad, 0, <<>>, self, g.lib, g.calls)
             ELSE LET ok == out.ret
                      calls == g.calls \o
                               <<Call("pa_simple_drain", self.stream[1])>>
                  IN  IF ok # 0
                      THEN Effect(ErrDrain, out.err, <<>>, self, g.lib, calls)
                      ELSE Effect(OK, 0, <<>>, self, g.lib, calls)

\* flush without the liveness test
flush_unchecked(self, lib, loadOk, out) ==
    LET g == get_libpulse_simple(lib, loadOk)
        calls == g.calls \o <<Call("pa_simple_flush", self.stream[1])>>
    IN  IF g.raised THEN Effect(ErrLoad, 0, <<>>, self, g.lib, g.calls)
        ELSE IF out.ret # 0
        THEN Effect(ErrFlush, out.err, <<>>, self, g.lib, calls)
        ELSE Effect(OK, 0, <<>>, self, g.lib, calls)

\* PaSimple.flush
flush(self, lib, loadOk, out) ==
    IF ~self.stream_alive THEN Effect(ErrClosed, 0, <<>>, self, lib, <<>>)
    ELSE LET g == get_libpulse_simple(lib, loadOk)
         IN  IF g.raised
             THEN Effect(ErrLoad, 0, <<>>, self, g.lib, g.calls)
             ELSE LET ok == out.ret
                      calls == g.calls \o
                               <<Call("pa_simple_flush", self.stream[1])>>
                  IN  IF ok # 0
                      THEN Effect(ErrFlush, out.err, <<>>, self, g.lib, calls)
                      ELSE Effect(OK, 0, <<>>, self, g.lib, calls)

\* PaSimple.get_latency.  The name pa_simple_get_latency is looked up on the
\* table.  Bound to the type c_ulonglong, the call c_ulonglong(handle, byref)
\* is a constructor call with two arguments: ctypes raises TypeError and
\* nothing reaches the server.  Bound to the foreign function, the server is
\* asked and then `error != 0` compares the c_int object itself with 0, which
\* ctypes never finds equal, so the error branch is taken whatever the code.
get_latency(self, lib, loadOk, out) ==
    IF ~self.stream_alive THEN Effect(ErrClosed, 0, <<>>, self, lib, <<>>)
    ELSE LET g == get_libpulse_simple(lib, loadOk)
         IN  IF g.raised
             THEN Effect(ErrLoad, 0, <<>>, self, g.lib, g.calls)
             ELSE IF g.lib[1].pa_simple_get_latency = "c_ulonglong"
             THEN Effect(TypeError, 0, <<>>, self, g.lib, g.calls)
             ELSE Effect(ErrLatency, out.err, <<>>, self, g.lib,
                         g.calls \o <<Call("pa_simple_get_latency",
                                           self.stream[1])>>)

\* PaSimple.direction, format, channels, rate
direction(self, lib) == Effect(OK, 0, <<self.direction>>, self, lib, <<>>)
format(self, lib) == Effect(OK, 0, <<self.format>>, self, lib, <<>>)
channels(self, lib) == Effect(OK, 0, <<self.channels>>, self, lib, <<>>)
rate(self, lib) == Effect(OK, 0, <<self.rate>>, self, lib, <<>>)

\* __exit__ that returns without closing
exit_noop(self, lib, loadOk) == Effect(OK, 0, <<>>, self, lib, <<>>)

\* PaSimple.__exit__
exit(self, lib, loadOk) == close(self, lib, loadOk)

----------------------------------------------------------------------------
(* State machine *)

NoLast == [ s |-> 0, op |-> "none", arg |-> 0, res |-> OK, code |-> 0,
            val |-> <<>>, ncalls |-> 0, nat |-> [ret |-> 0, err |-> 0, data |-> <<>>] ]

\* no module-level function is running
NoFrame == [fn |-> "none"]

Init ==
    /\ libpulse_simple = <<>>
    /\ objs = [s \in Streams |-> NoObject]
    /\ ctl = [s \in Streams |-> "unborn"]
    /\ log = <<>>
    /\ last = NoLast
    /\ frame = NoFrame

\* No exception is propagating out of a with-block: the caller runs.
Running == \A t \in Streams : ctl[t] # "raising"

\* the caller holds a reference to object s and is free to call a method
Usable(s) == Running /\ ctl[s] \in {"plain", "in", "left"}

\* the library is looked for only while the global is None
LoadChoices == IF libpulse_simple = <<>> THEN BOOLEAN ELSE {TRUE}

\* whether the calls issued include one to an entry point of the library
Reached(calls) == \E i \in 1..Len(calls) : calls[i].fn # "CDLL"

\* One method call on object s with effect e.  last.nat is what the library
\* did in this call, when the call got that far.
Step(s, op, arg, out, e, next) ==
    /\ libpulse_simple' = e.lib
    /\ objs' = [objs EXCEPT ![s] = e.self]
    /\ log' = log \o e.calls
    /\ last' = [ s |-> s, op |-> op, arg |-> arg, res |-> e.res, code |-> e.code,
                 val |-> e.val, ncalls |-> Len(e.calls),
                 nat |-> IF Reached(e.calls) THEN out ELSE NoLast.nat ]
    /\ ctl' = [ctl EXCEPT ![s] = next]

\* a method call made by the application, within the bound on the log
Apply(s, op, arg, out, e, next) ==
    /\ Len(log) + Len(e.calls) <= MaxCalls
    /\ Step(s, op, arg, out, e, next)
    /\ UNCHANGED frame

AfterCall(s, e) == IF e.res # OK /\ ctl[s] = "in" THEN "raising" ELSE ctl[s]

\* PaSimple(...) as a plain call (scoped = FALSE) or as the expression of a
\* with statement (scoped = TRUE, __enter__ returns the object)
Construct(s) ==
    /\ Running
    /\ ctl[s] = "unborn"
    /\ \A t \in Streams : t < s => ctl[t] # "unborn"
    /\ \E a \in Args, scoped \in BOOLEAN,
          loadOk \in LoadChoices, out \in NewOutcomes(s) :
          LET e == init(a, libpulse_simple, loadOk, out)
          IN  Apply(s, "__init__", a, out, e,
                    IF e.res # OK THEN "failed"
                    ELSE IF scoped THEN "in" ELSE "plain")

Close(s) ==
    /\ Usable(s)
    /\ \E loadOk \in LoadChoices :
          LET e == close(objs[s], libpulse_simple, loadOk)
          IN  Apply(s, "close", 0, NoLast.nat, e, AfterCall(s, e))

Read(s) ==
    /\ Usable(s)
    /\ \E num_bytes \in 0..MaxBytes, loadOk \in LoadChoices :
       \E out \in ReadOutcomes(num_bytes) :
          LET e == read(objs[s], libpulse_simple, num_bytes, loadOk, out)
          IN  Apply(s, "read", num_bytes, out, e, AfterCall(s, e))

Write(s) ==
    /\ Usable(s)
    /\ \E data_len \in 0..MaxBytes, loadOk \in LoadChoices, out \in CallOutcomes :
          LET e == write(objs[s], libpulse_simple, data_len, loadOk, out)
          IN  Apply(s, "write", data_len, out, e, AfterCall(s, e))

Drain(s) ==
    /\ Usable(s)
    /\ \E loadOk \in LoadChoices, out \in CallOutcomes :
          LET e == drain(objs[s], libpulse_simple, loadOk, out)
          IN  Apply(s, "drain", 0, out, e, AfterCall(s, e))

Flush(s) ==
    /\ Usable(s)
    /\ \E loadOk \in LoadChoices, out \in CallOutcomes :
          LET e == flush(objs[s], libpulse_simple, loadOk, out)
          IN  Apply(s, "flush", 0, out, e, AfterCall(s, e))

GetLatency(s) ==
    /\ Usable(s)
    /\ \E loadOk \in LoadChoices, out \in LatencyOutcomes :
          LET e == get_latency(objs[s], libpulse_simple, loadOk, out)
          IN  Apply(s, "get_latency", 0, out, e, AfterCall(s, e))

\* The caller reads the configuration of object s: direction(), format(),
\* channels() and rate(), one after the other.
Get(s) ==
    /\ Usable(s)
    /\ LET d == direction(objs[s], libpulse_simple)
           f == format(d.self, d.lib)
           c == channels(f.self, f.lib)
           r == rate(c.self, c.lib)
       IN  Apply(s, "accessors", 0, NoLast.nat,
                 Effect(r.res, 0, d.val \o f.val \o c.val \o r.val,
                        r.self, r.lib,
                        d.calls \o f.calls \o c.calls \o r.calls),
                 ctl[s])

\* The with-block over object s is left, by normal completion or by a
\* propagating exception: the interpreter calls __exit__, with the exception
\* as its argument (last.arg is 1) or with None (last.arg is 0).
Exit(s) ==
    /\ ctl[s] \in {"in", "raising"}
    /\ ctl[s] = "in" => Running
    /\ \E loadOk \in LoadChoices :
          LET e == exit(objs[s], libpulse_simple, loadOk)
          IN  Apply(s, "__exit__", IF ctl[s] = "raising" THEN 1 ELSE 0,
                    NoLast.nat, e, "left")

\* The caller drops its last reference to object s outside any with-block.
\* PaSimple defines no __del__, so no code of the class runs.
Drop(s) ==
    /\ Running
    /\ ctl[s] \in {"plain", "left"}
    /\ ctl' = [ctl EXCEPT ![s] = "gone"]
    /\ last' = [NoLast EXCEPT !.s = s, !.op = "del"]
    /\ UNCHANGED <<libpulse_simple, objs, log, frame>>

Next ==
    \E s \in Streams :
        \/ Construct(s)
        \/ Read(s)
        \/ Write(s)
        \/ Drain(s)
        \/ Flush(s)
        \/ GetLatency(s)
        \/ Get(s)
        \/ Close(s)
        \/ Exit(s)
        \/ Drop(s)

Spec == Init /\ [][Next]_vars

----------------------------------------------------------------------------
(* The format catalog and the constructor's argument marshalling, applied *)
(* to inputs drawn from bounded sets                                       *)

MaxWidth == 6

\* sample widths asked of width2format: in and out of the table
Widths == (-MaxWidth)..MaxWidth

\* format codes asked of format2width: the 13 formats and two codes outside
FormatCodes == Formats \cup {PA_SAMPLE_U8 - 1, PA_SAMPLE_S24_32BE + 1}

\* the largest explicit byte count, 2^32 - 2, and the 32-bit all-ones word
MaxExplicit == [neg |-> FALSE, hi |-> HalfWord - 1, lo |-> HalfWord - 2]
AllBitsSet == [hi |-> HalfWord - 1, lo |-> HalfWord - 1]

\* values given for a buffer attribute
AttrValues == {Unset, Py(0), Py(246000), MaxExplicit}

AttrFields == {"maxlength", "tlength", "prebuf", "minreq", "fragsize"}

\* constructor arguments: the sample specifications of Args with every
\* combination of buffer attributes
ArgSpace ==
    { [ direction |-> a.direction, format |-> a.format,
        channels |-> a.channels, rate |-> a.rate,
        maxlength |-> b[1], tlength |-> b[2], prebuf |-> b[3],
        minreq |-> b[4], fragsize |-> b[5] ] :
      a \in Args,
      b \in AttrValues \X AttrValues \X AttrValues \X AttrValues \X AttrValues }

\* a call about to be made, and a call that has returned or raised
Pending(fn, arg) ==
    [fn |-> fn, arg |-> arg, st |-> "pending", res |-> OK, val |-> <<>>, mid |-> <<>>]
Done(fn, arg, res, val, mid) ==
    [fn |-> fn, arg |-> arg, st |-> "done", res |-> res, val |-> val, mid |-> mid]

PureInputs ==
    { Pending("width2format", w) : w \in Widths } \cup
    { Pending("format2width", f) : f \in FormatCodes } \cup
    { Pending("roundtrip", w) : w \in Widths } \cup
    { Pending("PaSimple", a) : a \in ArgSpace }

PureInit ==
    /\ libpulse_simple = <<>>
    /\ objs = [s \in Streams |-> NoObject]
    /\ ctl = [s \in Streams |-> "unborn"]
    /\ log = <<>>
    /\ last = NoLast
    /\ frame \in PureInputs

\* width2format(frame.arg)
Width2Format ==
    /\ frame.fn = "width2format"
    /\ frame.st = "pending"
    /\ LET r == width2format(frame.arg)
       IN  frame' = Done(frame.fn, frame.arg, r.res, r.val, <<>>)
    /\ UNCHANGED <<libpulse_simple, objs, ctl, log, last>>

\* format2width(frame.arg)
Format2Width ==
    /\ frame.fn = "format2width"
    /\ frame.st = "pending"
    /\ LET r == format2width(frame.arg)
       IN  frame' = Done(frame.fn, frame.arg, r.res, r.val, <<>>)
    /\ UNCHANGED <<libpulse_simple, objs, ctl, log, last>>

\* format2width(width2format(frame.arg))
RoundTrip ==
    /\ frame.fn = "roundtrip"
    /\ frame.st = "pending"
    /\ LET f == width2format(frame.arg)
       IN  IF f.res # OK
           THEN frame' = Done(frame.fn, frame.arg, f.res, <<>>, <<>>)
           ELSE LET w == format2width(f.val[1])
                IN  frame' = Done(frame.fn, frame.arg, w.res, w.val, f.val)
    /\ UNCHANGED <<libpulse_simple, objs, ctl, log, last>>

\* PaSimple(**frame.arg)
PassArgs ==
    /\ frame.fn = "PaSimple"
    /\ frame.st = "pending"
    /\ \E loadOk \in LoadChoices, out \in NewOutcomes(1) :
          LET e == init(frame.arg, libpulse_simple, loadOk, out)
          IN  /\ Step(1, "__init__", frame.arg, out, e,
                      IF e.res # OK THEN "failed" ELSE "plain")
              /\ frame' = Done(frame.fn, frame.arg, e.res, <<>>, <<>>)

PureNext ==
    \/ Width2Format
    \/ Format2Width
    \/ RoundTrip
    \/ PassArgs

PureSpec == PureInit /\ [][PureNext]_vars

----------------------------------------------------------------------------
(* play_wav and record_wav (src/pasimple/__init__.py), one call of either *)
(* on the object 1, a statement at a time                                  *)

MaxFrames == 1
MaxSeconds == 1
MaxBuffer == 16

\* headers of the wav files played: sample width, channels, rate, frames
WavFiles ==
    [ sampwidth : 1..5, nchannels : {1, 2}, framerate : {41000, 44100},
      nframes : 0..MaxFrames ]

\* arguments of record_wav; the first is the default format, channel count
\* and rate
RecordArgs ==
    [ length : 0..MaxSeconds,
      format : {PA_SAMPLE_S24LE, PA_SAMPLE_U8, PA_SAMPLE_S16LE,
                PA_SAMPLE_S24_32BE, PA_SAMPLE_S24_32BE + 1},
      channels : {1, 2}, sample_rate : {2, 41000} ]

\* what pa_simple_read may do with the buffer of record_wav: fill all of it
\* and return 0, or return a negative status with an error code.  Buffers
\* beyond MaxBuffer bytes are followed on the failing outcomes only.
FileReadOutcomes(n) ==
    { [ret |-> 0, err |-> 0, data |-> [i \in 1..n |-> b]] :
         b \in IF n <= MaxBuffer THEN SampleBytes ELSE {} } \cup
    { [ret |-> -1, err |-> e, data |-> <<>>] : e \in NativeErrors }

\* play_wav draining before it writes
play_wav_drain_first(pc, res) ==
    CASE pc = "open" -> IF res = OK THEN "drain" ELSE "done"
      [] pc = "drain" -> IF res = OK THEN "write" ELSE "exit"
      [] pc = "write" -> "exit"
      [] pc = "exit" -> "done"

\* the statement play_wav runs after statement pc ended with outcome res
play_wav(pc, res) ==
    CASE pc = "open" -> IF res = OK THEN "write" ELSE "done"
      [] pc = "write" -> IF res = OK THEN "drain" ELSE "exit"
      [] pc = "drain" -> "exit"
      [] pc = "exit" -> "done"

\* the statement record_wav runs after statement pc ended with outcome res
record_wav(pc, res) ==
    CASE pc = "open" -> IF res = OK THEN "read" ELSE "done"
      [] pc = "read" -> "exit"
      [] pc = "exit" -> IF res = OK THEN "file" ELSE "done"
      [] pc = "file" -> "done"

\* a byte count that leaves out the sample width
record_bytes_no_width(channels_, sample_rate, width, length) ==
    channels_ * sample_rate * length

\* the byte count record_wav asks read for
record_bytes(channels_, sample_rate, width, length) ==
    channels_ * sample_rate * width * length

\* the arguments of a PaSimple(direction, format, channels, rate) call
DefaultArgs(direction_, format_, channels_, rate_) ==
    [ direction |-> direction_, format |-> format_, channels |-> channels_,
      rate |-> rate_, maxlength |-> Unset, tlength |-> Unset,
      prebuf |-> Unset, minreq |-> Unset, fragsize |-> Unset ]

FileInputs ==
    { [fn |-> "play_wav", pc |-> "open", wf |-> w, exc |-> OK] : w \in WavFiles }
    \cup
    { [fn |-> "record_wav", pc |-> "open", args |-> a, exc |-> OK,
       audio_data |-> <<>>, file |-> <<>>] : a \in RecordArgs }

FileInit ==
    /\ libpulse_simple = <<>>
    /\ objs = [s \in Streams |-> NoObject]
    /\ ctl = [s \in Streams |-> "unborn"]
    /\ log = <<>>
    /\ last = NoLast
    /\ frame \in FileInputs

\* with PaSimple(PA_STREAM_PLAYBACK, width2format(wf.getsampwidth()),
\*               wf.getnchannels(), wf.getframerate()) as pa:
PlayOpen ==
    /\ frame.fn = "play_wav"
    /\ frame.pc = "open"
    /\ LET f == width2format(frame.wf.sampwidth)
       IN  IF f.res # OK
           THEN /\ frame' = [frame EXCEPT !.pc = play_wav("open", f.res),
                                          !.exc = f.res]
                /\ UNCHANGED <<libpulse_simple, objs, ctl, log, last>>
           ELSE \E loadOk \in LoadChoices, out \in NewOutcomes(1) :
                  LET a == DefaultArgs(PA_STREAM_PLAYBACK, f.val[1],
                                       frame.wf.nchannels, frame.wf.framerate)
                      e == init(a, libpulse_simple, loadOk, out)
                  IN  /\ Step(1, "__init__", a, out, e,
                              IF e.res # OK THEN "failed" ELSE "in")
                      /\ frame' = [frame EXCEPT !.pc = play_wav("open", e.res),
                                                !.exc = e.res]

\* pa.write(wf.readframes(wf.getnframes()))
PlayWrite ==
    /\ frame.fn = "play_wav"
    /\ frame.pc = "write"
    /\ \E loadOk \in LoadChoices, out \in CallOutcomes :
          LET data_len == frame.wf.nframes * frame.wf.nchannels * frame.wf.sampwidth
              e == write(objs[1], libpulse_simple, data_len, loadOk, out)
          IN  /\ Step(1, "write", data_len, out, e, AfterCall(1, e))
              /\ frame' = [frame EXCEPT !.pc = play_wav("write", e.res),
                                        !.exc = e.res]

\* pa.drain()
PlayDrain ==
    /\ frame.fn = "play_wav"
    /\ frame.pc = "drain"
    /\ \E loadOk \in LoadChoices, out \in CallOutcomes :
          LET e == drain(objs[1], libpulse_simple, loadOk, out)
          IN  /\ Step(1, "drain", 0, out, e, AfterCall(1, e))
              /\ frame' = [frame EXCEPT !.pc = play_wav("drain", e.res),
                                        !.exc = e.res]

\* the with-block of play_wav is left: __exit__
PlayExit ==
    /\ frame.fn = "play_wav"
    /\ frame.pc = "exit"
    /\ \E loadOk \in LoadChoices :
          LET e == exit(objs[1], libpulse_simple, loadOk)
          IN  /\ Step(1, "__exit__", IF ctl[1] = "raising" THEN 1 ELSE 0,
                      NoLast.nat, e, "left")
              /\ frame' = [frame EXCEPT !.pc = play_wav("exit", frame.exc)]

\* with PaSimple(PA_STREAM_RECORD, format, channels, sample_rate) as pa:
RecordOpen ==
    /\ frame.fn = "record_wav"
    /\ frame.pc = "open"
    /\ \E loadOk \in LoadChoices, out \in NewOutcomes(1) :
          LET a == DefaultArgs(PA_STREAM_RECORD, frame.args.format,
                               frame.args.channels, frame.args.sample_rate)
              e == init(a, libpulse_simple, loadOk, out)
          IN  /\ Step(1, "__init__", a, out, e,
                      IF e.res # OK THEN "failed" ELSE "in")
              /\ frame' = [frame EXCEPT !.pc = record_wav("open", e.res),
                                        !.exc = e.res]

\* audio_data = pa.read(channels * sample_rate * format2width(format) * length)
RecordRead ==
    /\ frame.fn = "record_wav"
    /\ frame.pc = "read"
    /\ LET w == format2width(frame.args.format)
       IN  IF w.res # OK
           THEN /\ frame' = [frame EXCEPT !.pc = record_wav("read", w.res),
                                          !.exc = w.res]
                /\ ctl' = [ctl EXCEPT ![1] = "raising"]
                /\ UNCHANGED <<libpulse_simple, objs, log, last>>
           ELSE LET n == record_bytes(frame.args.channels, frame.args.sample_rate,
                                      w.val[1], frame.args.length)
                IN  \E loadOk \in LoadChoices, out \in FileReadOutcomes(n) :
                      LET e == read(objs[1], libpulse_simple, n, loadOk, out)
                      IN  /\ Step(1, "read", n, out, e, AfterCall(1, e))
                          /\ frame' = [frame EXCEPT
                                         !.pc = record_wav("read", e.res),
                                         !.exc = e.res,
                                         !.audio_data = e.val]

\* the with-block of record_wav is left: __exit__
RecordExit ==
    /\ frame.fn = "record_wav"
    /\ frame.pc = "exit"
    /\ \E loadOk \in LoadChoices :
          LET e == exit(objs[1], libpulse_simple, loadOk)
          IN  /\ Step(1, "__exit__", IF ctl[1] = "raising" THEN 1 ELSE 0,
                      NoLast.nat, e, "left")
              /\ frame' = [frame EXCEPT !.pc = record_wav("exit", frame.exc)]

\* with wave.open(file_path, 'wb') as wf: setsampwidth, setnchannels,
\* setframerate, writeframes(audio_data).  The file is kept as its header
\* fields and the number of data bytes written.
RecordFile ==
    /\ frame.fn = "record_wav"
    /\ frame.pc = "file"
    /\ frame' = [frame EXCEPT
                   !.pc = record_wav("file", OK),
                   !.file = << [ sampwidth |-> format2width(frame.args.format).val[1],
                                 nchannels |-> frame.args.channels,
                                 framerate |-> frame.args.sample_rate,
                                 datalen |-> Len(frame.audio_data) ] >>]
    /\ UNCHANGED <<libpulse_simple, objs, ctl, log, last>>

FileNext ==
    \/ PlayOpen
    \/ PlayWrite
    \/ PlayDrain
    \/ PlayExit
    \/ RecordOpen
    \/ RecordRead
    \/ RecordExit
    \/ RecordFile

FileSpec == FileInit /\ [][FileNext]_vars

----------------------------------------------------------------------------
(* Properties *)

\* object s was constructed successfully and the caller still holds it
Constructed(s) == ctl[s] \in {"plain", "in", "raising", "left"}

\* state Open / Closed of a constructed stream
Open(s) == Constructed(s) /\ objs[s].stream_alive
Closed(s) == Constructed(s) /\ ~objs[s].stream_alive

TransferOps == {"read", "write", "drain", "flush", "get_latency"}

\* C1: for a constructed stream, pa_simple_free is invoked at most once for
\* its handle under any sequence of operations: a close() (explicit, or by
\* __exit__) on an Open stream moves it to Closed and issues exactly one
\* pa_simple_free for its handle and nothing else; a close() on a Closed
\* stream returns normally, issues no native call and changes nothing.
C1_CloseFreesOnce ==
    /\ [](\A s \in Streams : FreeCount(s) <= 1)
    /\ [][ last'.op \in {"close", "__exit__"} =>
             LET s == last'.s
             IN  /\ last'.res = OK
                 /\ ~objs'[s].stream_alive
                 /\ libpulse_simple' = libpulse_simple
                 /\ IF objs[s].stream_alive
                    THEN /\ FreeCount(objs[s].stream[1]) = 0
                         /\ log' = Append(log, Call("pa_simple_free", objs[s].stream[1]))
                         /\ last'.ncalls = 1
                    ELSE /\ log' = log
                         /\ objs' = objs
                         /\ last'.ncalls = 0 ]_vars

\* C1 witness: a second close() on a stream whose handle was freed by the first
C1_Witness ==
    /\ last.op = "close"
    /\ last.ncalls = 0
    /\ Closed(last.s)
    /\ FreeCount(last.s) = 1

\* C2: once a constructed stream is Closed it stays Closed, and every read,
\* write, drain, flush and get_latency on it raises the closed-stream error,
\* whatever its direction.
C2_ClosedRejectsAll ==
    [][ \A s \in Streams :
          Closed(s) =>
            /\ ~objs'[s].stream_alive
            /\ (last'.s = s /\ last'.op \in TransferOps) => last'.res = ErrClosed
      ]_vars

\* C2 witness: get_latency on a closed playback stream raised the closed-stream error
C2_Witness ==
    /\ last.op = "get_latency"
    /\ last.res = ErrClosed
    /\ Closed(last.s)
    /\ objs[last.s].direction = PA_STREAM_PLAYBACK

\* C3 as stated: a Record stream rejects write and drain with the
\* invalid-direction error whether Open or Closed, and a Playback stream
\* rejects read with the invalid-direction error.
C3_Original ==
    /\ (last.op \in {"write", "drain"} /\ objs[last.s].direction = PA_STREAM_RECORD)
          => last.res = ErrNotPlayback
    /\ (last.op = "read" /\ objs[last.s].direction = PA_STREAM_PLAYBACK)
          => last.res = ErrNotRecord

\* C3 amended: an Open Record stream rejects write and drain with the
\* invalid-direction error and an Open Playback stream rejects read with it;
\* on a Closed stream the same calls are rejected with the closed-stream
\* error instead (the liveness test comes first).  None of them reaches the
\* library.
C3_DirectionGateWhileOpen ==
    /\ (last.op \in {"write", "drain"} /\ objs[last.s].direction = PA_STREAM_RECORD)
          => /\ last.res = IF Open(last.s) THEN ErrNotPlayback ELSE ErrClosed
             /\ last.ncalls = 0
    /\ (last.op = "read" /\ objs[last.s].direction = PA_STREAM_PLAYBACK)
          => /\ last.res = IF Open(last.s) THEN ErrNotRecord ELSE ErrClosed
             /\ last.ncalls = 0

\* C3 witness: drain on an Open Record stream raised the invalid-direction error
C3_Witness ==
    /\ last.op = "drain"
    /\ objs[last.s].direction = PA_STREAM_RECORD
    /\ Open(last.s)
    /\ last.res = ErrNotPlayback

\* the call op on stream s is misuse in the current state
Misuse(s, op) ==
    \/ ~objs[s].stream_alive
    \/ op = "read" /\ objs[s].direction # PA_STREAM_RECORD
    \/ op \in {"write", "drain"} /\ objs[s].direction # PA_STREAM_PLAYBACK

\* C4: a read, write, drain, flush or get_latency that is misuse (the stream
\* is Closed, or read on Playback, or write/drain on Record) raises a misuse
\* error, issues no native call of any kind and leaves the object, the
\* library table and the call log as they were.
C4_MisuseStaysLocal ==
    [][ (last'.op \in TransferOps /\ Misuse(last'.s, last'.op)) =>
          /\ last'.res \in {ErrClosed, ErrNotRecord, ErrNotPlayback}
          /\ last'.ncalls = 0
          /\ log' = log
          /\ objs' = objs
          /\ libpulse_simple' = libpulse_simple ]_vars

\* C4 witness: flush on a Closed stream, after its handle was freed, left the
\* log at the free call
C4_Witness ==
    /\ last.op = "flush"
    /\ last.res = ErrClosed
    /\ last.ncalls = 0
    /\ log # <<>>
    /\ log[Len(log)] = Call("pa_simple_free", objs[last.s].stream[1])

\* C5: a construction whose pa_simple_new call returns non-null leaves the
\* stream Open holding that handle; one whose pa_simple_new returns NULL
\* raises the stream-open error carrying the error code the call reported.
\* No other outcome follows a pa_simple_new call (without one, the library
\* could not be loaded and the load error is raised).  A failed construction
\* leaves no Open stream and no pa_simple_free is ever issued for it.
C5_ConstructAllOrNothing ==
    /\ last.op = "__init__" =>
         /\ last.res \in {OK, ErrCreate, ErrLoad}
         /\ Reached(SubSeq(log, Len(log) - last.ncalls + 1, Len(log)))
               <=> last.res \in {OK, ErrCreate}
         /\ last.res = OK =>
               /\ ctl[last.s] \in {"plain", "in"}
               /\ objs[last.s].stream_alive
               /\ last.nat.ret # NULL
               /\ objs[last.s].stream = <<last.nat.ret>>
         /\ last.res = ErrCreate =>
               /\ last.nat.ret = NULL
               /\ last.code = last.nat.err
               /\ ctl[last.s] = "failed"
         /\ last.res = ErrLoad => ctl[last.s] = "failed"
    /\ \A s \in Streams :
         /\ ctl[s] = "failed" => /\ ~objs[s].stream_alive
                                 /\ objs[s].stream = <<>>
         /\ Open(s) => objs[s].stream # <<>> /\ objs[s].stream[1] # NULL
    /\ \A i \in 1..Len(log) :
         log[i].fn = "pa_simple_free" =>
            /\ log[i].h # NULL
            /\ log[i].h \in Streams
            /\ ctl[log[i].h] \notin {"unborn", "failed"}

\* C5 witness: pa_simple_new returned NULL with error code 2 and the
\* constructor raised the stream-open error carrying 2
C5_Witness ==
    /\ last.op = "__init__"
    /\ last.res = ErrCreate
    /\ last.nat.ret = NULL
    /\ last.code = 2
    /\ ctl[last.s] = "failed"

\* C6: when a with-block over a stream has been left, on normal completion
\* or with an exception propagating out of it, the stream is Closed and
\* pa_simple_free has been issued exactly once for its handle, also when the
\* body had already called close(); and a with-block is left in no other way
\* than through __exit__.
C6_ScopeExitCloses ==
    /\ [](\A s \in Streams :
            ctl[s] = "left" => /\ ~objs[s].stream_alive
                               /\ FreeCount(objs[s].stream[1]) = 1)
    /\ [][ \A s \in Streams :
             (ctl[s] \in {"in", "raising"} /\ ctl'[s] \notin {"in", "raising"})
                => /\ ctl'[s] = "left"
                   /\ last'.op = "__exit__"
                   /\ last'.s = s
                   /\ last'.res = OK ]_vars

\* C6 witness: an exception propagated out of the with-block while the
\* stream was still Open, and __exit__ freed the handle
C6_Witness ==
    /\ last.op = "__exit__"
    /\ last.arg = 1
    /\ last.ncalls = 1
    /\ ctl[last.s] = "left"
    /\ FreeCount(objs[last.s].stream[1]) = 1

\* C7 as stated: a stream dropped without close() outside a with-block has
\* had its handle freed exactly once when it is gone.
C7_DropFrees ==
    \A s \in Streams :
        (ctl[s] = "gone" /\ objs[s].stream # <<>>)
            => FreeCount(objs[s].stream[1]) = 1

\* a construction is attempted in this step
ConstructStep == \E s \in Streams : ctl[s] = "unborn" /\ ctl'[s] # "unborn"

\* C8: a failed load is not remembered: after a construction that failed
\* with the load error the global is still None, and the next construction
\* looks for the library again; when it is then found, the construction goes
\* on to pa_simple_new and succeeds when that returns a handle.
C8_LoadFailureNotCached ==
    /\ [](last.res = ErrLoad => libpulse_simple = <<>>)
    /\ [][ (ConstructStep /\ last.op = "__init__" /\ last.res = ErrLoad) =>
             /\ last'.op = "__init__"
             /\ Len(log') > Len(log)
             /\ log'[Len(log) + 1] = Call("CDLL", 0)
             /\ \/ last'.res = ErrLoad /\ libpulse_simple' = <<>>
                \/ /\ libpulse_simple' = <<LoadedTable>>
                   /\ log' = log \o <<Call("CDLL", 0), Call("pa_simple_new", 0)>>
                   /\ last'.res = IF last'.nat.ret # NULL THEN OK ELSE ErrCreate
           ]_vars

\* C8 witness: the first construction failed on the load, the second loaded
\* the library and produced an Open stream
C8_Witness ==
    /\ last.op = "__init__"
    /\ last.res = OK
    /\ last.s = 2
    /\ ctl[1] = "failed"
    /\ log = <<Call("CDLL", 0), Call("CDLL", 0), Call("pa_simple_new", 0)>>
    /\ Open(2)

\* C9: nothing is loaded before a call needs the library (the global starts
\* None and no entry point is called while it is None); once a load has
\* succeeded the table never changes and no further load is attempted,
\* whatever is done on however many streams.
C9_LazyMemoizedLoad ==
    /\ [](/\ log = <<>> => libpulse_simple = <<>>
          /\ libpulse_simple = <<>> => Loads = 1..Len(log)
          /\ libpulse_simple # <<>> =>
                /\ libpulse_simple = <<LoadedTable>>
                /\ Loads # {}
                /\ \A i \in 1..Len(log) : i \in Loads <=> i <= Cardinality(Loads))
    /\ [][ libpulse_simple # <<>> =>
             /\ libpulse_simple' = libpulse_simple
             /\ \A i \in Len(log)+1..Len(log') : log'[i].fn # "CDLL" ]_vars

\* C9 witness: two Open streams were created and one was used under a single
\* load of the library
C9_Witness ==
    /\ Open(1) /\ Open(2)
    /\ Cardinality(Loads) = 1
    /\ last.op \in {"read", "write"}
    /\ last.res = OK
    /\ last.ncalls = 1

\* C10 as stated: on an Open stream get_latency asks the server and returns
\* the latency it reports when the error code is 0, and raises the latency
\* error only when the server reports a nonzero code.
C10_LatencyReturned ==
    (last.op = "get_latency" /\ Open(last.s)) =>
        /\ last.ncalls = 1
        /\ log[Len(log)] = Call("pa_simple_get_latency", objs[last.s].stream[1])
        /\ IF last.nat.err = 0
           THEN last.res = OK /\ last.val = <<last.nat.ret>>
           ELSE last.res = ErrLatency /\ last.code = last.nat.err

\* the entry point a transfer operation calls, and the error it raises when
\* the entry point reports failure
NativeOf(op) ==
    CASE op = "read" -> "pa_simple_read"
      [] op = "write" -> "pa_simple_write"
      [] op = "drain" -> "pa_simple_drain"
      [] op = "flush" -> "pa_simple_flush"
      [] op = "get_latency" -> "pa_simple_get_latency"
ErrOf(op) ==
    CASE op = "read" -> ErrRead
      [] op = "write" -> ErrWrite
      [] op = "drain" -> ErrDrain
      [] op = "flush" -> ErrFlush
      [] op = "get_latency" -> ErrLatency

\* read on Record, write and drain on Playback, flush on either direction
Permitted(s, op) ==
    \/ op = "flush"
    \/ op = "read" /\ objs[s].direction = PA_STREAM_RECORD
    \/ op \in {"write", "drain"} /\ objs[s].direction = PA_STREAM_PLAYBACK

\* C11: on an Open stream a permitted operation (read on Record, write and
\* drain on Playback, flush on either) makes its one native call on the
\* stream's handle and has that call's outcome: it returns normally exactly
\* when the call returns status 0, and otherwise raises the error of that
\* operation, which is none of the misuse errors, carrying the error code
\* the call reported.
C11_OutcomeIsNativeOutcome ==
    (/\ last.op \in {"read", "write", "drain", "flush"}
     /\ Open(last.s)
     /\ Permitted(last.s, last.op))
    => /\ last.ncalls = 1
       /\ log[Len(log)] = Call(NativeOf(last.op), objs[last.s].stream[1])
       /\ last.nat.ret = 0 => last.res = OK
       /\ last.nat.ret # 0 =>
             /\ last.res = ErrOf(last.op)
             /\ last.res \notin {OK, ErrClosed, ErrNotRecord, ErrNotPlayback}
             /\ last.nat.err \in NativeErrors
             /\ last.code = last.nat.err

\* C11 witness: pa_simple_drain failed with code 2 on an Open playback
\* stream and drain raised the drain error carrying 2
C11_Witness ==
    /\ last.op = "drain"
    /\ Open(last.s)
    /\ last.nat.ret # 0
    /\ last.res = ErrDrain
    /\ last.code = 2

\* C12: a read(n) that returns gives a buffer of exactly n bytes holding the
\* bytes pa_simple_read stored; a read that does not return normally gives
\* no buffer at all.
C12_ReadExactLength ==
    last.op = "read" =>
        IF last.res = OK
        THEN /\ Len(last.val) = last.arg
             /\ last.val = last.nat.data
             /\ Open(last.s)
             /\ objs[last.s].direction = PA_STREAM_RECORD
        ELSE last.val = <<>>

\* C12 witness: read(MaxBytes) returned MaxBytes captured bytes
C12_Witness ==
    /\ last.op = "read"
    /\ last.res = OK
    /\ last.arg = MaxBytes
    /\ Len(last.val) = MaxBytes
    /\ \A i \in 1..MaxBytes : last.val[i] \in SampleBytes

\* C18 as stated: every read, write, drain, flush or get_latency that passes
\* the liveness and direction tests makes exactly one native call, appended
\* to the calls made so far, and one that does not pass makes none.
C18_OneCallPerOperation ==
    [][ last'.op \in TransferOps =>
          IF Misuse(last'.s, last'.op)
          THEN log' = log
          ELSE log' = Append(log, Call(NativeOf(last'.op),
                                       objs[last'.s].stream[1])) ]_vars

\* C19: an operation that fails on an Open stream, by misuse or by a failure
\* of the native call, leaves the object as it was (still Open, same
\* handle); the next permitted operation on it still makes its native call,
\* and a close() after it still issues the one pa_simple_free.
C19_FailureKeepsOpen ==
    /\ [][ (last'.op \in TransferOps /\ last'.res # OK /\ Open(last'.s)) =>
              /\ objs'[last'.s] = objs[last'.s]
              /\ objs'[last'.s].stream_alive ]_vars
    /\ [][ (/\ last.op \in TransferOps
            /\ last.res # OK
            /\ Open(last.s)
            /\ last'.s = last.s) =>
              /\ (last'.op \in {"read", "write", "drain", "flush"}
                  /\ Permitted(last.s, last'.op)) =>
                    log' = Append(log, Call(NativeOf(last'.op),
                                            objs[last.s].stream[1]))
              /\ last'.op \in {"close", "__exit__"} =>
                    /\ FreeCount(objs[last.s].stream[1]) = 0
                    /\ log' = Append(log, Call("pa_simple_free",
                                               objs[last.s].stream[1]))
       ]_vars

\* C19 witness: pa_simple_write failed on a playback stream held outside a
\* with-block, and the stream is still Open
C19_Witness ==
    /\ last.op = "write"
    /\ last.res = ErrWrite
    /\ ctl[last.s] = "plain"
    /\ Open(last.s)
    /\ FreeCount(objs[last.s].stream[1]) = 0

\* the configuration held by an object
Config(o) == [ direction |-> o.direction, format |-> o.format,
               channels |-> o.channels, rate |-> o.rate ]

\* C20: the constructor stores the direction, format, channel count and
\* rate it is given, no later call on any stream changes them (failed calls
\* and close() included), and the accessors return the stored values, on a
\* Closed stream too, without a native call.
C20_ConfigNeverMutated ==
    /\ [](last.op = "accessors" =>
            /\ last.res = OK
            /\ last.ncalls = 0
            /\ last.val = << objs[last.s].direction, objs[last.s].format,
                             objs[last.s].channels, objs[last.s].rate >>)
    /\ [][ \A s \in Streams :
             /\ (ctl[s] = "unborn" /\ Constructed(s)') =>
                   /\ last'.op = "__init__"
                   /\ Config(objs'[s]) = Config(last'.arg)
             /\ ctl[s] # "unborn" => Config(objs'[s]) = Config(objs[s]) ]_vars

\* C20 witness: the accessors of a Closed record stream returned the values
\* it was constructed with
C20_Witness ==
    /\ last.op = "accessors"
    /\ Closed(last.s)
    /\ last.val = <<PA_STREAM_RECORD, PA_SAMPLE_S24LE, 1, 41000>>
    /\ FreeCount(objs[last.s].stream[1]) = 1

\* C13: in the structures handed to pa_simple_new, a buffer attribute left
\* at its default -1 is the 32-bit word with all bits set, an attribute
\* given as a byte count from 0 to 2^32-2 is that count in the field of its
\* own name, and the sample specification holds the format, rate and
\* channel count the constructor was given.
C13_ArgsMarshalled ==
    (last.op = "__init__" /\ last.ncalls > 0
     /\ log[Len(log)] = Call("pa_simple_new", 0)) =>
        /\ Len(last.val) = 2
        /\ \A f \in AttrFields :
              IF last.arg[f] = Unset
              THEN last.val[2][f] = AllBitsSet
              ELSE /\ ~last.arg[f].neg
                   /\ last.val[2][f] = [hi |-> last.arg[f].hi, lo |-> last.arg[f].lo]
                   /\ last.val[2][f] # AllBitsSet
        /\ last.val[1].format = last.arg.format
        /\ last.val[1].rate.hi * HalfWord + last.val[1].rate.lo = last.arg.rate
        /\ last.val[1].channels = last.arg.channels

\* C13 witness: a stream was opened with maxlength 2^32-2, prebuf 246000 and
\* tlength left unset
C13_Witness ==
    /\ last.op = "__init__"
    /\ last.res = OK
    /\ last.arg.maxlength = MaxExplicit
    /\ last.arg.tlength = Unset
    /\ last.arg.prebuf = Py(246000)
    /\ last.val[2].maxlength = [hi |-> HalfWord - 1, lo |-> HalfWord - 2]
    /\ last.val[2].tlength = AllBitsSet
    /\ last.val[2].prebuf = c_uint32(Py(246000))

\* C14: format2width(width2format(w)) = w for w in 1..4, width2format maps
\* 1, 2, 3, 4 to U8, S16LE, S24LE, S32LE, and format2width returns a width
\* for each of the 13 formats.
C14_CatalogRoundTrip ==
    /\ (frame.fn = "roundtrip" /\ frame.st = "done" /\ frame.arg \in 1..4) =>
          /\ frame.res = OK
          /\ frame.val = <<frame.arg>>
          /\ frame.mid = << CASE frame.arg = 1 -> PA_SAMPLE_U8
                              [] frame.arg = 2 -> PA_SAMPLE_S16LE
                              [] frame.arg = 3 -> PA_SAMPLE_S24LE
                              [] frame.arg = 4 -> PA_SAMPLE_S32LE >>
    /\ (frame.fn = "format2width" /\ frame.st = "done"
        /\ frame.arg \in Formats) =>
          /\ frame.res = OK
          /\ Len(frame.val) = 1
          /\ frame.val[1] \in 1..4
    /\ Cardinality(Formats) = 13

\* C14 witness: width 3 went to S24LE and back to 3
C14_Witness ==
    /\ frame.fn = "roundtrip"
    /\ frame.st = "done"
    /\ frame.arg = 3
    /\ frame.mid = <<PA_SAMPLE_S24LE>>
    /\ frame.val = <<3>>

\* C15: width2format raises its lookup error and returns no format for
\* every width outside 1..4, zero, negative widths and widths above 4
\* included.
C15_UnsupportedWidthFails ==
    (frame.fn = "width2format" /\ frame.st = "done"
     /\ frame.arg \notin {1, 2, 3, 4}) =>
        /\ frame.res = KeyError
        /\ frame.val = <<>>

\* C15 witness: width2format(0) raised
C15_Witness ==
    /\ frame.fn = "width2format"
    /\ frame.st = "done"
    /\ frame.arg = 0
    /\ frame.res = KeyError

\* this step issues the native call fn as its last call
Appends(fn) == Len(log') > Len(log) /\ log'[Len(log')].fn = fn

\* how many calls of fn have been issued
Count(fn) == Cardinality({i \in 1..Len(log) : log[i].fn = fn})

\* the calls issued to entry points of the library, in order
EntryCalls == SelectSeq(log, LAMBDA c : c.fn # "CDLL")

\* C16: play_wav opens a Playback stream with the format width2format gives
\* for the file's sample width, the file's channel count and rate and all
\* buffer attributes at their default; it then issues one write of all the
\* frames, directly after the open; a drain only directly after a write that
\* returned normally; and the free only after the drain, or after a write
\* that failed.  Whenever the stream was opened, the finished call has freed
\* it exactly once, and a call that finishes normally has issued exactly
\* open, write, drain, free.
C16_PlayOrder ==
    /\ [][ frame.fn = "play_wav" =>
            /\ Appends("pa_simple_new") =>
                  /\ Count("pa_simple_new") = 0
                  /\ last'.arg = DefaultArgs(PA_STREAM_PLAYBACK,
                                    LOOKUP_FORMAT_BY_WIDTH[frame.wf.sampwidth],
                                    frame.wf.nchannels, frame.wf.framerate)
                  /\ last'.val[1].format = LOOKUP_FORMAT_BY_WIDTH[frame.wf.sampwidth]
                  /\ \A f \in AttrFields : last'.val[2][f] = AllBitsSet
            /\ Appends("pa_simple_write") =>
                  /\ last.op = "__init__" /\ last.res = OK
                  /\ Count("pa_simple_write") = 0
                  /\ last'.arg = frame.wf.nframes * frame.wf.nchannels
                                   * frame.wf.sampwidth
            /\ Appends("pa_simple_drain") =>
                  /\ last.op = "write" /\ last.res = OK
                  /\ Count("pa_simple_drain") = 0
            /\ Appends("pa_simple_free") =>
                  /\ FreeCount(objs[1].stream[1]) = 0
                  /\ \/ last.op = "drain"
                     \/ last.op = "write" /\ last.res # OK ]_vars
    /\ []((frame.fn = "play_wav" /\ frame.pc = "done") =>
            /\ objs[1].stream # <<>> =>
                  /\ FreeCount(objs[1].stream[1]) = 1
                  /\ ~objs[1].stream_alive
            /\ frame.exc = OK =>
                  EntryCalls = << Call("pa_simple_new", 0),
                                  Call("pa_simple_write", objs[1].stream[1]),
                                  Call("pa_simple_drain", objs[1].stream[1]),
                                  Call("pa_simple_free", objs[1].stream[1]) >>)

\* C16 witness: play_wav of a one-frame file ended with the drain error
\* after open, write, drain and one free
C16_Witness ==
    /\ frame.fn = "play_wav"
    /\ frame.pc = "done"
    /\ frame.wf.nframes = 1
    /\ frame.exc = ErrDrain
    /\ Len(EntryCalls) = 4
    /\ FreeCount(objs[1].stream[1]) = 1

\* C17: record_wav opens a Record stream with its format, channel count and
\* rate, asks one read for channels * sample_rate * format2width(format) *
\* length bytes (41000 * 1 * 3 for one second of the defaults), and writes
\* the file only after the stream has been freed; the file's sample width,
\* channel count and rate are those of the arguments and its data are as
\* many bytes as the read was asked for.
C17_RecordFile ==
    /\ [][ frame.fn = "record_wav" =>
            /\ Appends("pa_simple_new") =>
                  last'.arg = DefaultArgs(PA_STREAM_RECORD, frame.args.format,
                                          frame.args.channels,
                                          frame.args.sample_rate)
            /\ Appends("pa_simple_read") =>
                  /\ Count("pa_simple_read") = 0
                  /\ frame.args.format \in DOMAIN LOOKUP_WIDTH_BY_FORMAT
                  /\ last'.arg = frame.args.channels * frame.args.sample_rate
                                   * LOOKUP_WIDTH_BY_FORMAT[frame.args.format]
                                   * frame.args.length
                  /\ (/\ frame.args.format = PA_SAMPLE_S24LE
                      /\ frame.args.channels = 1
                      /\ frame.args.sample_rate = 41000
                      /\ frame.args.length = 1) => last'.arg = 41000 * 1 * 3
            /\ (frame.file = <<>> /\ frame'.file # <<>>) =>
                  /\ log' = log
                  /\ Count("pa_simple_read") = 1
                  /\ FreeCount(objs[1].stream[1]) = 1
                  /\ ~objs[1].stream_alive ]_vars
    /\ []((frame.fn = "record_wav" /\ frame.file # <<>>) =>
            /\ frame.file[1].sampwidth = LOOKUP_WIDTH_BY_FORMAT[frame.args.format]
            /\ frame.file[1].nchannels = frame.args.channels
            /\ frame.file[1].framerate = frame.args.sample_rate
            /\ frame.file[1].datalen =
                  frame.args.channels * frame.args.sample_rate
                  * LOOKUP_WIDTH_BY_FORMAT[frame.args.format] * frame.args.length
            /\ last.op = "__exit__")

\* C17 witness: one second of 24-bit mono at 2 Hz was recorded and written
\* as a file of 6 data bytes after the stream was freed
C17_Witness ==
    /\ frame.fn = "record_wav"
    /\ frame.pc = "done"
    /\ frame.args.format = PA_SAMPLE_S24LE
    /\ frame.args.channels = 1
    /\ frame.args.length = 1
    /\ frame.file # <<>>
    /\ frame.file[1].sampwidth = 3
    /\ frame.file[1].datalen = 6
    /\ FreeCount(objs[1].stream[1]) = 1

====
